---- MODULE Spec2Model ----
(***************************************************************************)
(* cute-dynamo: init / get / put over a process-wide DynamoDB document     *)
(* client (src/unnamed/part_000), the client factories                     *)
(* (src/src/index.js, src/unnamed/part_001) and the explicit-client        *)
(* helpers put/get/updateItem/deleteItem/queryItems/scanTable              *)
(* (src/unnamed/part_001).                                                 *)
(*                                                                         *)
(* JavaScript values are tagged records.  A JavaScript string is the       *)
(* sequence of its characters, so that JSON.stringify and JSON.parse are   *)
(* computed character by character.                                        *)
(***************************************************************************)
EXTENDS Integers, Sequences, FiniteSets, TLC

(***************************************************************************)
(* JavaScript values                                                       *)
(***************************************************************************)
Undefined == [t |-> "undefined"]
Null == [t |-> "null"]
Bool(b) == [t |-> "boolean", b |-> b]
Num(n) == [t |-> "number", n |-> n]
Str(s) == [t |-> "string", s |-> s]
Arr(e) == [t |-> "array", e |-> e]
Obj(m) == [t |-> "object", m |-> m]

\* JavaScript ToBoolean, as used by `sk && ...`, `if (identityPoolId)` and
\* `response.Item && response.Item.JSON`.
Truthy(v) ==
    CASE v.t = "undefined" -> FALSE
      [] v.t = "null" -> FALSE
      [] v.t = "boolean" -> v.b
      [] v.t = "number" -> v.n # 0
      [] v.t = "string" -> v.s # <<>>
      [] OTHER -> TRUE

(***************************************************************************)
(* JSON.stringify                                                          *)
(***************************************************************************)
Digits == <<"0", "1", "2", "3", "4", "5", "6", "7", "8", "9">>

RECURSIVE NatToChars(_)
NatToChars(n) ==
    IF n < 10 THEN <<Digits[n + 1]>>
    ELSE NatToChars(n \div 10) \o <<Digits[(n % 10) + 1]>>

NumToChars(n) == IF n < 0 THEN <<"-">> \o NatToChars(-n) ELSE NatToChars(n)

\* A string literal: quotes around the characters, with the quote and the
\* backslash escaped.
RECURSIVE QuoteChars(_)
QuoteChars(s) ==
    IF s = <<>> THEN <<>>
    ELSE (IF Head(s) = "\"" \/ Head(s) = "\\" THEN <<"\\", Head(s)>> ELSE <<Head(s)>>)
         \o QuoteChars(Tail(s))

Quote(s) == <<"\"">> \o QuoteChars(s) \o <<"\"">>

RECURSIVE Stringify(_)
RECURSIVE StringifyElems(_)
RECURSIVE StringifyMembers(_, _)
Stringify(v) ==
    CASE v.t = "null" -> <<"n", "u", "l", "l">>
      [] v.t = "boolean" -> IF v.b THEN <<"t", "r", "u", "e">> ELSE <<"f", "a", "l", "s", "e">>
      [] v.t = "number" -> NumToChars(v.n)
      [] v.t = "string" -> Quote(v.s)
      [] v.t = "array" -> <<"[">> \o StringifyElems(v.e) \o <<"]">>
      [] v.t = "object" -> <<"{">> \o StringifyMembers(v.m, TRUE) \o <<"}">>

\* Inside an array undefined is written as null.
StringifyElems(e) ==
    IF e = <<>> THEN <<>>
    ELSE (IF Head(e).t = "undefined" THEN <<"n", "u", "l", "l">> ELSE Stringify(Head(e)))
         \o (IF Len(e) > 1 THEN <<",">> ELSE <<>>)
         \o StringifyElems(Tail(e))

\* Inside an object a member whose value is undefined is left out.
StringifyMembers(m, first) ==
    IF m = <<>> THEN <<>>
    ELSE IF Head(m)[2].t = "undefined" THEN StringifyMembers(Tail(m), first)
    ELSE (IF first THEN <<>> ELSE <<",">>)
         \o Quote(Head(m)[1]) \o <<":">> \o Stringify(Head(m)[2])
         \o StringifyMembers(Tail(m), FALSE)

(***************************************************************************)
(* JSON.parse: a recursive-descent parser.  Each Parse* operator returns   *)
(* [ok, v, i]: whether a value was read, the value, and the position after *)
(* it.  ok = FALSE is the SyntaxError.                                     *)
(***************************************************************************)
Fail == [ok |-> FALSE, v |-> Undefined, i |-> 0]
Ok(v, i) == [ok |-> TRUE, v |-> v, i |-> i]

IsWs(c) == c = " "
IsDigit(c) == \E d \in 1..10 : Digits[d] = c
DigitVal(c) == (CHOOSE d \in 1..10 : Digits[d] = c) - 1

RECURSIVE SkipWs(_, _)
SkipWs(s, i) == IF i <= Len(s) /\ IsWs(s[i]) THEN SkipWs(s, i + 1) ELSE i

\* Whether the characters of lit stand at position i of s.
Lit(s, i, lit) ==
    /\ i + Len(lit) - 1 <= Len(s)
    /\ \A k \in 1..Len(lit) : s[i + k - 1] = lit[k]

RECURSIVE ParseDigits(_, _, _)
ParseDigits(s, i, acc) ==
    IF i <= Len(s) /\ IsDigit(s[i]) THEN ParseDigits(s, i + 1, acc * 10 + DigitVal(s[i]))
    ELSE Ok(Num(acc), i)

\* int = "0" | digit1-9 digits ; a leading zero ends the number.
ParseNat(s, i) ==
    IF i > Len(s) \/ ~IsDigit(s[i]) THEN Fail
    ELSE IF s[i] = "0" THEN Ok(Num(0), i + 1)
    ELSE ParseDigits(s, i, 0)

ParseNumber(s, i) ==
    IF i <= Len(s) /\ s[i] = "-"
    THEN LET r == ParseNat(s, i + 1) IN IF r.ok THEN Ok(Num(-r.v.n), r.i) ELSE Fail
    ELSE ParseNat(s, i)

\* The characters of a string literal, from the position after its opening quote.
RECURSIVE ParseChars(_, _, _)
ParseChars(s, i, acc) ==
    IF i > Len(s) THEN Fail
    ELSE IF s[i] = "\"" THEN Ok(Str(acc), i + 1)
    ELSE IF s[i] = "\\"
         THEN IF i + 1 <= Len(s) /\ (s[i + 1] = "\"" \/ s[i + 1] = "\\")
              THEN ParseChars(s, i + 2, Append(acc, s[i + 1]))
              ELSE Fail
    ELSE ParseChars(s, i + 1, Append(acc, s[i]))

ParseString(s, i) ==
    IF i <= Len(s) /\ s[i] = "\"" THEN ParseChars(s, i + 1, <<>>) ELSE Fail

\* Object members keep the order of first appearance; a repeated key keeps
\* its place and takes the later value.
SetMember(m, k, v) ==
    IF \E j \in 1..Len(m) : m[j][1] = k
    THEN [j \in 1..Len(m) |-> IF m[j][1] = k THEN <<k, v>> ELSE m[j]]
    ELSE Append(m, <<k, v>>)

RECURSIVE ParseValue(_, _)
RECURSIVE ParseElems(_, _, _)
RECURSIVE ParseMembers(_, _, _)
ParseValue(s, i0) ==
    LET i == SkipWs(s, i0) IN
    IF i > Len(s) THEN Fail
    ELSE IF Lit(s, i, <<"n", "u", "l", "l">>) THEN Ok(Null, i + 4)
    ELSE IF Lit(s, i, <<"t", "r", "u", "e">>) THEN Ok(Bool(TRUE), i + 4)
    ELSE IF Lit(s, i, <<"f", "a", "l", "s", "e">>) THEN Ok(Bool(FALSE), i + 5)
    ELSE IF s[i] = "\"" THEN ParseString(s, i)
    ELSE IF s[i] = "[" THEN
        LET j == SkipWs(s, i + 1) IN
        IF j <= Len(s) /\ s[j] = "]" THEN Ok(Arr(<<>>), j + 1)
        ELSE ParseElems(s, j, <<>>)
    ELSE IF s[i] = "{" THEN
        LET j == SkipWs(s, i + 1) IN
        IF j <= Len(s) /\ s[j] = "}" THEN Ok(Obj(<<>>), j + 1)
        ELSE ParseMembers(s, j, <<>>)
    ELSE ParseNumber(s, i)

\* value ("," value)* "]"
ParseElems(s, i, acc) ==
    LET r == ParseValue(s, i) IN
    IF ~r.ok THEN Fail
    ELSE LET j == SkipWs(s, r.i) IN
         IF j > Len(s) THEN Fail
         ELSE IF s[j] = "]" THEN Ok(Arr(Append(acc, r.v)), j + 1)
         ELSE IF s[j] = "," THEN ParseElems(s, j + 1, Append(acc, r.v))
         ELSE Fail

\* string ":" value ("," string ":" value)* "}"
ParseMembers(s, i0, acc) ==
    LET k == ParseString(s, SkipWs(s, i0)) IN
    IF ~k.ok THEN Fail
    ELSE LET c == SkipWs(s, k.i) IN
         IF c > Len(s) \/ s[c] # ":" THEN Fail
         ELSE LET r == ParseValue(s, c + 1) IN
              IF ~r.ok THEN Fail
              ELSE LET j == SkipWs(s, r.i) IN
                   IF j > Len(s) THEN Fail
                   ELSE IF s[j] = "}" THEN Ok(Obj(SetMember(acc, k.v.s, r.v)), j + 1)
                   ELSE IF s[j] = "," THEN ParseMembers(s, j + 1, SetMember(acc, k.v.s, r.v))
                   ELSE Fail

\* JSON.parse coerces its argument to a string first.
ToStringChars(v) ==
    CASE v.t = "string" -> v.s
      [] v.t = "number" -> NumToChars(v.n)
      [] v.t = "boolean" -> IF v.b THEN <<"t", "r", "u", "e">> ELSE <<"f", "a", "l", "s", "e">>
      [] v.t = "null" -> <<"n", "u", "l", "l">>
      [] OTHER -> <<"u", "n", "d", "e", "f", "i", "n", "e", "d">>

\* JSON.parse(x): one value, then only whitespace to the end.
JSONParse(x) ==
    LET s == ToStringChars(x)
        r == ParseValue(s, 1)
    IN IF r.ok /\ SkipWs(s, r.i) > Len(s) THEN Ok(r.v, r.i) ELSE Fail

(***************************************************************************)
(* Objects                                                                 *)
(***************************************************************************)
\* {} : an object without properties.
EmptyObj == [a \in {} |-> Undefined]

\* ...(x): the own properties of x; a falsy primitive has none.
Spread(x) == IF x.t = "attrs" THEN x.o ELSE EmptyObj

\* Variant: SK is included whenever sk is not undefined.
AndSKDefined(sk) == IF sk # Undefined THEN [t |-> "attrs", o |-> [SK |-> sk]] ELSE sk

\* sk && {SK: sk}: sk itself when it is falsy, the object otherwise.
AndSK(sk) == IF Truthy(sk) THEN [t |-> "attrs", o |-> [SK |-> sk]] ELSE sk

\* const key = {PK: pk, ...(sk && {SK: sk})}
GetKey(pk, sk) == [PK |-> pk] @@ Spread(AndSK(sk))

\* const item = {PK: pk, ...(sk && {SK: sk}), JSON: JSON.stringify(data)}
PutItem(data, pk, sk) ==
    [PK |-> pk] @@ Spread(AndSK(sk)) @@ [JSON |-> Str(Stringify(data))]

(***************************************************************************)
(* Bounds and input sets                                                   *)
(***************************************************************************)
MaxInits == 2
MaxClients == 1
MaxCalls == 2
MaxCredCalls == 1
MaxRacing == 1
MaxOverwriteCalls == 3
MaxTableCalls == 2

S(c) == Str(<<c>>)

PKList == <<Str(<<"K", "1">>), Str(<<"K", "2">>)>>
PKs == {PKList[n] : n \in 1..Len(PKList)}
SortKey == Str(<<"S", "1">>)
SKs == {Undefined, SortKey}
Datas ==
    {Obj(<< <<<<"a">>, Num(-12)>>,
            <<<<"b", "\"">>, Arr(<<Bool(TRUE), Null, Str(<<"x", "\\", " ">>)>>)>> >>),
     Arr(<<Str(<<>>), Obj(<<>>), Bool(FALSE), Num(305)>>)}

\* Inputs of the codec specification: every kind of falsy and truthy sort key.
CodecSKs ==
    {Undefined, Null, Bool(FALSE), Num(0), Str(<<>>),
     Bool(TRUE), Num(1), Num(-1), Str(<<"0">>), Str(<<"S", "1">>)}
CodecDatas ==
    Datas \cup
    {Null, Bool(TRUE), Bool(FALSE), Num(0), Num(-12), Num(305), Str(<<>>),
     Str(<<"a", "\"", "\\", " ">>), Arr(<<>>), Obj(<<>>),
     Obj(<< <<<<"n">>, Str(<<"A">>)>>, <<<<"l">>, Arr(<<Num(1), Obj(<<>>)>>)>> >>)}

\* What a credential option, or an environment variable, may hold.
OptValues == {Undefined, Str(<<>>), S("v")}
EnvValues == {Undefined, S("e")}
Regions == {Undefined, S("r")}

VARIABLES
    env,        \* process.env
    client,     \* part_000 `let client`: 0 is undefined, else an index of handles
    handles,    \* the client objects constructed so far
    inits,      \* the calls of init and of the two factories
    calls,      \* the calls of the access operations
    store,      \* the external table contents, per table name
    schema,     \* the tables' key schema: "PK" or "PKSK"
    wire,       \* history: every request handed to a client's send, in order
    installed,  \* history: the handles assigned to client, in order
    cin,        \* codec specification: the input (data, pk, sk)
    cout        \* codec specification: what was built from it

vars == <<env, client, handles, inits, calls, store, schema, wire, installed, cin, cout>>

(***************************************************************************)
(* Credential resolution and client construction                           *)
(***************************************************************************)
\* A default parameter value applies when the argument is undefined.
Default(arg, dflt) == IF arg = Undefined THEN dflt ELSE arg

\* part_000 line 246: init's destructured options with their defaults.
InitOptions(o) ==
    [region |-> Default(o.region, env.AWS_REGION),
     identityPoolId |-> Default(o.identityPoolId, env.AWS_IDENTITY_POOL_ID),
     accessKeyId |-> Default(o.accessKeyId, env.AWS_ACCESS_KEY_ID),
     secretAccessKey |-> Default(o.secretAccessKey, env.AWS_SECRET_ACCESS_KEY)]

Cognito(o) ==
    [kind |-> "cognito", region |-> o.region, identityPoolId |-> o.identityPoolId,
     accessKeyId |-> Undefined, secretAccessKey |-> Undefined]
Static(o) ==
    [kind |-> "static", region |-> Undefined, identityPoolId |-> Undefined,
     accessKeyId |-> o.accessKeyId, secretAccessKey |-> o.secretAccessKey]
NoCredentials ==
    [kind |-> "none", region |-> Undefined, identityPoolId |-> Undefined,
     accessKeyId |-> Undefined, secretAccessKey |-> Undefined]

\* Variant: one of the two keys is enough for the static pair.
InitCredentialsEither(o) ==
    IF Truthy(o.identityPoolId) THEN Cognito(o)
    ELSE IF Truthy(o.accessKeyId) \/ Truthy(o.secretAccessKey) THEN Static(o)
    ELSE NoCredentials

\* part_000 lines 248-256: the branch init takes on its (defaulted) options.
InitCredentials(o) ==
    IF Truthy(o.identityPoolId) THEN Cognito(o)
    ELSE IF Truthy(o.accessKeyId) /\ Truthy(o.secretAccessKey) THEN Static(o)
    ELSE NoCredentials

\* Variant: the static pair is tried before the identity pool id.
ClientCredentialsKeysFirst(o) ==
    IF Truthy(o.accessKeyId) /\ Truthy(o.secretAccessKey) THEN Static(o)
    ELSE IF Truthy(o.identityPoolId) THEN Cognito(o)
    ELSE NoCredentials

\* index.js lines 5-22.
ClientCredentials(o) ==
    IF Truthy(o.identityPoolId) THEN Cognito(o)
    ELSE IF Truthy(o.accessKeyId) /\ Truthy(o.secretAccessKey) THEN Static(o)
    ELSE NoCredentials

\* part_001 lines 11-28.
DocClientCredentials(o) ==
    IF Truthy(o.identityPoolId) THEN Cognito(o)
    ELSE IF Truthy(o.accessKeyId) /\ Truthy(o.secretAccessKey) THEN Static(o)
    ELSE NoCredentials

InsufficientCredentials == "Insufficient credentials provided"

InitRec(fn, given, o, cred) ==
    [fn |-> fn, given |-> given, opts |-> o, credentials |-> cred,
     pc |-> IF cred.kind = "none" THEN "done" ELSE "import",
     status |-> IF cred.kind = "none" THEN "Error" ELSE "pending",
     message |-> IF cred.kind = "none" THEN InsufficientCredentials ELSE "",
     handle |-> 0]

NewHandle(kind, r) ==
    [kind |-> kind, region |-> r.opts.region, credentials |-> r.credentials]

\* Variant: init clears client before it resolves the credentials, so a
\* failing init leaves client undefined.
InitCallClears(given, max) ==
    /\ Len(inits) < max
    /\ LET o == InitOptions(given)
           r == InitRec("init", given, o, InitCredentials(o))
       IN IF r.credentials.kind = "static"
          THEN /\ handles' = Append(handles, NewHandle("document", r))
               /\ client' = Len(handles) + 1
               /\ installed' = Append(installed, Len(handles) + 1)
               /\ inits' = Append(inits, [r EXCEPT !.pc = "done", !.status = "ok",
                                                   !.handle = Len(handles) + 1])
          ELSE /\ inits' = Append(inits, r)
               /\ client' = 0
               /\ UNCHANGED <<handles, installed>>
    /\ UNCHANGED <<env, calls, store, schema, wire, cin, cout>>

\* init(options): throws on insufficient credentials; with an identity pool id
\* it first awaits the two imports; with a static pair it assigns client
\* without suspending.
InitCall(given, max) ==
    /\ Len(inits) < max
    /\ LET o == InitOptions(given)
           r == InitRec("init", given, o, InitCredentials(o))
       IN IF r.credentials.kind = "static"
          THEN /\ handles' = Append(handles, NewHandle("document", r))
               /\ client' = Len(handles) + 1
               /\ installed' = Append(installed, Len(handles) + 1)
               /\ inits' = Append(inits, [r EXCEPT !.pc = "done", !.status = "ok",
                                                   !.handle = Len(handles) + 1])
          ELSE /\ inits' = Append(inits, r)
               /\ UNCHANGED <<handles, client, installed>>
    /\ UNCHANGED <<env, calls, store, schema, wire, cin, cout>>

\* init resumes after its imports: line 252 and the assignment of line 257.
InitResume(i) ==
    /\ inits[i].fn = "init" /\ inits[i].pc = "import"
    /\ handles' = Append(handles, NewHandle("document", inits[i]))
    /\ client' = Len(handles) + 1
    /\ installed' = Append(installed, Len(handles) + 1)
    /\ inits' = [inits EXCEPT ![i].pc = "done", ![i].status = "ok",
                              ![i].handle = Len(handles) + 1]
    /\ UNCHANGED <<env, calls, store, schema, wire, cin, cout>>

\* index.js createDynamoDBClient(options): no defaults; throws or suspends at
\* an import.
CreateClientCall(given, max) ==
    /\ Len(inits) < max
    /\ inits' = Append(inits, InitRec("createDynamoDBClient", given, given,
                                      ClientCredentials(given)))
    /\ UNCHANGED <<env, client, handles, calls, store, schema, wire, installed, cin, cout>>

\* index.js lines 24-28: the client is returned, not stored.
CreateClientResume(i) ==
    /\ inits[i].fn = "createDynamoDBClient" /\ inits[i].pc = "import"
    /\ handles' = Append(handles, NewHandle("plain", inits[i]))
    /\ inits' = [inits EXCEPT ![i].pc = "done", ![i].status = "ok",
                              ![i].handle = Len(handles) + 1]
    /\ UNCHANGED <<env, client, calls, store, schema, wire, installed, cin, cout>>

\* part_001 createDynamoDBDocumentClient(options).
CreateDocClientCall(given, max) ==
    /\ Len(inits) < max
    /\ inits' = Append(inits, InitRec("createDynamoDBDocumentClient", given, given,
                                      DocClientCredentials(given)))
    /\ UNCHANGED <<env, client, handles, calls, store, schema, wire, installed, cin, cout>>

\* part_001 lines 30-36.
CreateDocClientResume(i) ==
    /\ inits[i].fn = "createDynamoDBDocumentClient" /\ inits[i].pc = "import"
    /\ handles' = Append(handles, NewHandle("document", inits[i]))
    /\ inits' = [inits EXCEPT ![i].pc = "done", ![i].status = "ok",
                              ![i].handle = Len(handles) + 1]
    /\ UNCHANGED <<env, client, calls, store, schema, wire, installed, cin, cout>>

(***************************************************************************)
(* The external table service behind a client's send                       *)
(***************************************************************************)
Tables == {"T1", "T2"}
NoItem == Undefined
EmptyCell == [item |-> NoItem, w |-> 0, pw |-> 0]
\* The keys of a table, in the order the service lists them.
KeyList(sch) ==
    [n \in 1..Len(PKList) |-> IF sch = "PK" THEN <<PKList[n]>> ELSE <<PKList[n], SortKey>>]
KeysOf(sch) == {KeyList(sch)[n] : n \in 1..Len(PKList)}
EmptyStore(sch) == [t \in Tables |-> [k \in KeysOf(sch) |-> EmptyCell]]
NoInput == [data |-> Undefined, pk |-> Undefined, sk |-> Undefined]
NoOutput == [op |-> "none", v |-> EmptyObj]


KeyAttrs(sch) == IF sch = "PK" THEN {"PK"} ELSE {"PK", "SK"}
KeyTuple(attrs, sch) == IF sch = "PK" THEN <<attrs.PK>> ELSE <<attrs.PK, attrs.SK>>

OkResp(payload) == [kind |-> "ok", payload |-> payload, err |-> ""]
ErrResp(name) == [kind |-> "error", payload |-> EmptyObj, err |-> name]
NoResp == [kind |-> "none", payload |-> EmptyObj, err |-> ""]

\* The attribute assignments of an update expression.
Assignments(expr, vals) ==
    CASE expr = "set X = :x" -> [X |-> vals[":x"]]
      [] expr = "set JSON = :j" -> [JSON |-> vals[":j"]]
      [] OTHER -> EmptyObj

\* The items of table t whose partition key is one of pks, in key order.
ItemsOf(st, sch, t, pks) ==
    LET present == SelectSeq(KeyList(sch),
                             LAMBDA k : st[t][k].item # NoItem /\ st[t][k].item.PK \in pks)
    IN [n \in 1..Len(present) |-> st[t][present[n]].item]

\* A request names a table that exists and, where it carries a key, a key of
\* the table's schema; an item to write holds the key attributes.
ValidRequest(req, sch) ==
    /\ req.TableName \in Tables
    /\ req.cmd \in {"Get", "Update", "Delete"} =>
          /\ DOMAIN req.Key = KeyAttrs(sch)
          /\ KeyTuple(req.Key, sch) \in KeysOf(sch)
    /\ req.cmd = "Put" =>
          /\ KeyAttrs(sch) \subseteq DOMAIN req.Item
          /\ KeyTuple(req.Item, sch) \in KeysOf(sch)

\* The response to a valid request.
Response(req, st, sch) ==
    CASE req.cmd = "Get" ->
           LET cell == st[req.TableName][KeyTuple(req.Key, sch)]
           IN OkResp(IF cell.item = NoItem THEN EmptyObj ELSE [Item |-> cell.item])
      [] req.cmd = "Query" ->
           OkResp([Items |-> ItemsOf(st, sch, req.TableName,
                                     {req.ExpressionAttributeValues[":pk"]})])
      [] req.cmd = "Scan" ->
           OkResp([Items |-> ItemsOf(st, sch, req.TableName, PKs)])
      [] OTHER -> OkResp(EmptyObj)

\* The table contents after a valid request of call i: PutItem replaces the
\* whole item, UpdateItem changes the named attributes (creating the item when
\* there is none), DeleteItem removes it.  w and pw name the last two calls
\* that wrote the key.
Written(req, st, sch, i) ==
    CASE req.cmd = "Put" ->
           LET k == KeyTuple(req.Item, sch) IN
           [st EXCEPT ![req.TableName][k] =
               [item |-> req.Item, w |-> i, pw |-> @.w]]
      [] req.cmd = "Update" ->
           LET k == KeyTuple(req.Key, sch)
               old == st[req.TableName][k].item
               base == IF old = NoItem THEN req.Key ELSE old
           IN [st EXCEPT ![req.TableName][k] =
               [item |-> Assignments(req.UpdateExpression, req.ExpressionAttributeValues)
                         @@ base,
                w |-> i, pw |-> @.w]]
      [] req.cmd = "Delete" ->
           [st EXCEPT ![req.TableName][KeyTuple(req.Key, sch)] =
               [item |-> NoItem, w |-> i, pw |-> @.w]]
      [] OTHER -> st

(***************************************************************************)
(* Requests: the command objects handed to client.send                     *)
(***************************************************************************)
NoReq == [cmd |-> "none"]

\* The table name in the environment when the module is loaded.
LoadedTable == "T1"

\* Variant: get addresses the table that was named when the module was loaded.
GetRequestLoadedTable(pk, sk) ==
    [cmd |-> "Get", TableName |-> LoadedTable, Key |-> GetKey(pk, sk)]

\* part_000 lines 288-290.
GetRequest(pk, sk) ==
    [cmd |-> "Get", TableName |-> env.DYNAMODB_TABLE, Key |-> GetKey(pk, sk)]

\* Variant: put sends an update of the JSON attribute instead of the item.
PutAsUpdate(data, pk, sk) ==
    [cmd |-> "Update", TableName |-> env.DYNAMODB_TABLE, Key |-> GetKey(pk, sk),
     Item |-> PutItem(data, pk, sk), UpdateExpression |-> "set JSON = :j",
     ExpressionAttributeValues |-> (":j" :> Str(Stringify(data)))]

\* part_000 lines 327-329.
PutRequest(data, pk, sk) ==
    [cmd |-> "Put", TableName |-> env.DYNAMODB_TABLE, Item |-> PutItem(data, pk, sk)]

\* part_001 lines 43-46.
RawPutRequest(item) ==
    [cmd |-> "Put", TableName |-> env.DYNAMODB_TABLE, Item |-> item]

\* part_001 lines 51-54.
RawGetRequest(key) ==
    [cmd |-> "Get", TableName |-> env.DYNAMODB_TABLE, Key |-> key]

\* part_001 lines 71-76.
UpdateRequest(key, expr, vals) ==
    [cmd |-> "Update", TableName |-> env.DYNAMODB_TABLE, Key |-> key,
     UpdateExpression |-> expr, ExpressionAttributeValues |-> vals]

\* part_001 lines 90-93.
DeleteRequest(key) ==
    [cmd |-> "Delete", TableName |-> env.DYNAMODB_TABLE, Key |-> key]

\* part_001 lines 108-112.
QueryRequest(expr, vals) ==
    [cmd |-> "Query", TableName |-> env.DYNAMODB_TABLE,
     KeyConditionExpression |-> expr, ExpressionAttributeValues |-> vals]

\* part_001 lines 127-131.
ScanRequest(expr, vals) ==
    [cmd |-> "Scan", TableName |-> env.DYNAMODB_TABLE,
     FilterExpression |-> expr, ExpressionAttributeValues |-> vals]

(***************************************************************************)
(* How a call ends                                                         *)
(***************************************************************************)
Outcome(status, result, err) == [status |-> status, result |-> result, err |-> err]

\* `return await client.send(...)`: the response is the result.
Returned(payload) == Outcome("ok", payload, "")

\* Variant: a handler around the await turns the failure into a null result.
Swallowed(err) == Outcome("ok", Null, "")

\* No handler surrounds the await: a rejected send rejects the call with the
\* same error.
Rejected(err) == Outcome("rejected", Undefined, err)

\* Variant: `client?.send(...)` yields undefined instead of throwing.
NoClientOptional == Outcome("ok", Undefined, "")

\* client is undefined: `client.send` throws a TypeError.
NoClient == Outcome("TypeError", Undefined, "Cannot read properties of undefined")

\* Variant: the item is returned with its JSON attribute as stored.
GetResultRaw(payload) ==
    Outcome("ok", IF "Item" \in DOMAIN payload THEN payload.Item ELSE Null, "")

\* Variant: `return response.Item`, which is undefined when there is no item.
GetResultItem(payload) ==
    LET hasItem == "Item" \in DOMAIN payload
        item == payload.Item
    IN IF hasItem /\ "JSON" \in DOMAIN item /\ Truthy(item.JSON)
       THEN LET p == JSONParse(item.JSON)
            IN IF p.ok THEN Outcome("ok", [item EXCEPT !.JSON = p.v], "")
               ELSE Outcome("SyntaxError", Undefined, "Unexpected token")
       ELSE Outcome("ok", IF hasItem THEN item ELSE Undefined, "")

\* Variant: a payload that does not parse is left as it is.
GetResultLenient(payload) ==
    LET hasItem == "Item" \in DOMAIN payload
        item == payload.Item
    IN IF hasItem /\ "JSON" \in DOMAIN item /\ Truthy(item.JSON)
       THEN LET p == JSONParse(item.JSON)
            IN Outcome("ok", IF p.ok THEN [item EXCEPT !.JSON = p.v] ELSE item, "")
       ELSE Outcome("ok", IF hasItem THEN item ELSE Null, "")

\* part_000 lines 292-297: parse the JSON attribute when the item has a truthy
\* one; return the item, or null when the response has none.
GetResult(payload) ==
    LET hasItem == "Item" \in DOMAIN payload
        item == payload.Item
    IN IF hasItem /\ "JSON" \in DOMAIN item /\ Truthy(item.JSON)
       THEN LET p == JSONParse(item.JSON)
            IN IF p.ok THEN Outcome("ok", [item EXCEPT !.JSON = p.v], "")
               ELSE Outcome("SyntaxError", Undefined, "Unexpected token")
       ELSE Outcome("ok", IF hasItem THEN item ELSE Null, "")

(***************************************************************************)
(* The access operations                                                   *)
(***************************************************************************)
\* A call as invoked: nothing sent yet.  at0 and cl0 record the number of
\* assignments to client so far and its value, for the history.
NewCall(fn, data, pk, sk, cli, arg, expr, vals) ==
    [fn |-> fn, data |-> data, pk |-> pk, sk |-> sk, cli |-> cli, arg |-> arg,
     expr |-> expr, vals |-> vals, pc |-> "import", handle |-> 0, req |-> NoReq,
     resp |-> NoResp, status |-> "pending", result |-> Undefined, err |-> "",
     at0 |-> Len(installed), cl0 |-> client, at1 |-> 0, w |-> 0, pw |-> 0,
     in0 |-> Len(inits)]

\* Variant: the call uses the value client had when the call was invoked.
ClientCaptured(i) == calls[i].cl0

\* The value of the module variable client that a call's client.send reads.
ClientRead(i) == client

\* client.send(request) of call i through handle h (0: undefined).
Send(i, h, req) ==
    IF h = 0
    THEN /\ calls' = [calls EXCEPT ![i] =
                [@ EXCEPT !.pc = "done", !.status = NoClient.status,
                          !.err = NoClient.err, !.at1 = Len(installed)]]
         /\ wire' = wire
    ELSE /\ calls' = [calls EXCEPT ![i] =
                [@ EXCEPT !.pc = "sent", !.handle = h, !.req = req,
                          !.at1 = Len(installed)]]
         /\ wire' = Append(wire, [by |-> i, via |-> h, req |-> req])

\* The service answers the request of call i: it fails (throttling, network),
\* rejects an invalid request, or serves it.
Answers(i) ==
    LET req == calls[i].req IN
    {[resp |-> ErrResp("ServiceUnavailable"), store |-> store]} \cup
    (IF ValidRequest(req, schema)
     THEN {[resp |-> Response(req, store, schema),
            store |-> Written(req, store, schema, i)]}
     ELSE {[resp |-> ErrResp("ValidationException"), store |-> store]})

\* What fn does with the payload of a successful response: part_000 get
\* decodes it, every other operation returns it as it is.
End(fn, payload) == IF fn = "get" THEN GetResult(payload) ELSE Returned(payload)

\* Call i of fn resumes with the answer to its request and runs to its end.
Settle(i, fn) ==
    /\ calls[i].fn = fn /\ calls[i].pc = "sent"
    /\ \E a \in Answers(i) :
          LET o == IF a.resp.kind = "error" THEN Rejected(a.resp.err)
                   ELSE End(fn, a.resp.payload)
              cell == IF calls[i].req.cmd = "Get" /\ ValidRequest(calls[i].req, schema)
                      THEN store[calls[i].req.TableName][KeyTuple(calls[i].req.Key, schema)]
                      ELSE EmptyCell
          IN /\ calls' = [calls EXCEPT ![i] =
                    [@ EXCEPT !.pc = "done", !.resp = a.resp, !.status = o.status,
                              !.result = o.result, !.err = o.err,
                              !.w = cell.w, !.pw = cell.pw]]
             /\ store' = a.store
    /\ UNCHANGED <<env, client, handles, inits, schema, wire, installed, cin, cout>>

Invoke(c, max) ==
    /\ Len(calls) < max
    /\ calls' = Append(calls, c)
    /\ UNCHANGED <<env, client, handles, inits, store, schema, wire, installed, cin, cout>>

\* part_000 get(pk, sk): suspends at the import of line 283.
GetCall(pk, sk, max) ==
    Invoke(NewCall("get", Undefined, pk, sk, 0, EmptyObj, "", EmptyObj), max)

\* part_000 lines 284-290: build the key, read client, send.
GetSend(i) ==
    /\ calls[i].fn = "get" /\ calls[i].pc = "import"
    /\ Send(i, ClientRead(i), GetRequest(calls[i].pk, calls[i].sk))
    /\ UNCHANGED <<env, client, handles, inits, store, schema, installed, cin, cout>>

\* part_000 lines 292-297.
GetReturn(i) == Settle(i, "get")

\* part_000 put(data, pk, sk): suspends at the import of line 321.
PutCall(data, pk, sk, max) ==
    Invoke(NewCall("put", data, pk, sk, 0, EmptyObj, "", EmptyObj), max)

\* part_000 lines 322-329: build the item, read client, send.
PutSend(i) ==
    /\ calls[i].fn = "put" /\ calls[i].pc = "import"
    /\ Send(i, ClientRead(i), PutRequest(calls[i].data, calls[i].pk, calls[i].sk))
    /\ UNCHANGED <<env, client, handles, inits, store, schema, installed, cin, cout>>

\* part_000 line 327: `return await client.send(...)`.
PutReturn(i) == Settle(i, "put")

\* The document clients that createDynamoDBDocumentClient has returned.
DocClients ==
    {inits[j].handle : j \in {n \in 1..Len(inits) :
        inits[n].fn = "createDynamoDBDocumentClient" /\ inits[n].status = "ok"}}

\* part_001 put(client, item): suspends at the import of line 41.
RawPutCall(h, item) ==
    Invoke(NewCall("put1", Undefined, Undefined, Undefined, h, item, "", EmptyObj), MaxCalls)

\* part_001 lines 42-46.
RawPutSend(i) ==
    /\ calls[i].fn = "put1" /\ calls[i].pc = "import"
    /\ Send(i, calls[i].cli, RawPutRequest(calls[i].arg))
    /\ UNCHANGED <<env, client, handles, inits, store, schema, installed, cin, cout>>

RawPutReturn(i) == Settle(i, "put1")

\* A part_001 operation that sends before it first suspends.
InvokeSend(c, req, max) ==
    /\ Len(calls) < max
    /\ calls' = Append(calls, [c EXCEPT !.pc = "sent", !.handle = c.cli, !.req = req,
                                        !.at1 = Len(installed)])
    /\ wire' = Append(wire, [by |-> Len(calls) + 1, via |-> c.cli, req |-> req])
    /\ UNCHANGED <<env, client, handles, inits, store, schema, installed, cin, cout>>

\* part_001 get(client, key).
RawGetCall(h, key) ==
    InvokeSend(NewCall("get1", Undefined, Undefined, Undefined, h, key, "", EmptyObj),
               RawGetRequest(key), MaxCalls)

RawGetReturn(i) == Settle(i, "get1")

\* part_001 updateItem(client, key, updateExpression, expressionAttributeValues).
UpdateItemCall(h, key, expr, vals) ==
    InvokeSend(NewCall("updateItem", Undefined, Undefined, Undefined, h, key, expr, vals),
               UpdateRequest(key, expr, vals), MaxCalls)

UpdateItemReturn(i) == Settle(i, "updateItem")

\* part_001 deleteItem(client, key).
DeleteItemCall(h, key) ==
    InvokeSend(NewCall("deleteItem", Undefined, Undefined, Undefined, h, key, "", EmptyObj),
               DeleteRequest(key), MaxCalls)

DeleteItemReturn(i) == Settle(i, "deleteItem")

\* part_001 queryItems(client, keyConditionExpression, expressionAttributeValues).
QueryItemsCall(h, expr, vals) ==
    InvokeSend(NewCall("queryItems", Undefined, Undefined, Undefined, h, EmptyObj, expr, vals),
               QueryRequest(expr, vals), MaxCalls)

QueryItemsReturn(i) == Settle(i, "queryItems")

\* part_001 scanTable(client, filterExpression, expressionAttributeValues).
ScanTableCall(h, expr, vals) ==
    InvokeSend(NewCall("scanTable", Undefined, Undefined, Undefined, h, EmptyObj, expr, vals),
               ScanRequest(expr, vals), MaxCalls)

ScanTableReturn(i) == Settle(i, "scanTable")

(***************************************************************************)
(* Specification of credential resolution: any environment, any options.   *)
(***************************************************************************)
AllOptions ==
    [region : Regions, identityPoolId : OptValues,
     accessKeyId : OptValues, secretAccessKey : OptValues]

InitCred ==
    /\ env \in [DYNAMODB_TABLE : {"T1"}, AWS_REGION : {S("r")},
                AWS_IDENTITY_POOL_ID : EnvValues, AWS_ACCESS_KEY_ID : EnvValues,
                AWS_SECRET_ACCESS_KEY : EnvValues]
    /\ client = 0
    /\ handles = <<>>
    /\ inits = <<>>
    /\ calls = <<>>
    /\ schema = "PK"
    /\ store = EmptyStore("PK")
    /\ wire = <<>>
    /\ installed = <<>>
    /\ cin = NoInput
    /\ cout = NoOutput

NextCred ==
    \/ \E o \in AllOptions : InitCall(o, MaxCredCalls)
    \/ \E i \in 1..Len(inits) : InitResume(i)
    \/ \E o \in AllOptions : CreateClientCall(o, MaxCredCalls)
    \/ \E i \in 1..Len(inits) : CreateClientResume(i)
    \/ \E o \in AllOptions : CreateDocClientCall(o, MaxCredCalls)
    \/ \E i \in 1..Len(inits) : CreateDocClientResume(i)

SpecCred == InitCred /\ [][NextCred]_vars
(***************************************************************************)
(* Specification of the access operations, with init and the document      *)
(* client factory, on a table of either key schema.                        *)
(***************************************************************************)
Options(pool, id, secret) ==
    [region |-> Undefined, identityPoolId |-> pool, accessKeyId |-> id,
     secretAccessKey |-> secret]

\* A static pair, an identity pool id, and nothing.
SomeOptions ==
    {Options(Undefined, S("k"), S("s")), Options(S("p"), Undefined, Undefined),
     Options(Undefined, Undefined, Undefined)}

\* Items written through part_001 put: a payload that is no JSON text, an
\* empty payload beside another attribute, and a keyed item of a composite
\* table.
RawItems ==
    {[PK |-> PKList[1], JSON |-> Str(<<"{">>)],
     [PK |-> PKList[1], SK |-> SortKey, X |-> Num(1), JSON |-> Str(<<"{">>)]}
RawKeys == {[PK |-> PKList[1]], [PK |-> PKList[1], SK |-> SortKey]}
\* The key of the first cell of the table, as a caller who knows the table's
\* key schema writes it.
TableKey ==
    IF schema = "PK" THEN [PK |-> PKList[1]]
    ELSE [PK |-> PKList[1], SK |-> SortKey]

\* What the table may hold before the program starts: nothing, or under the
\* first key an item that another writer left there, with a payload that is
\* no JSON text or an empty payload.
Foreign(sch, json) ==
    [EmptyStore(sch) EXCEPT !["T1"][KeyList(sch)[1]] =
        [item |-> (IF sch = "PK" THEN [PK |-> PKList[1]]
                   ELSE [PK |-> PKList[1], SK |-> SortKey])
                  @@ [X |-> Num(1), JSON |-> json],
         w |-> 0, pw |-> 0]]
InitialStores(sch) ==
    {EmptyStore(sch), Foreign(sch, Str(<<"{">>)), Foreign(sch, Str(<<>>))}

Init ==
    /\ env = [DYNAMODB_TABLE |-> "T1", AWS_REGION |-> S("r"),
              AWS_IDENTITY_POOL_ID |-> Undefined, AWS_ACCESS_KEY_ID |-> Undefined,
              AWS_SECRET_ACCESS_KEY |-> Undefined]
    /\ client = 0
    /\ handles = <<>>
    /\ inits = <<>>
    /\ calls = <<>>
    /\ schema \in {"PK", "PKSK"}
    /\ store \in InitialStores(schema)
    /\ wire = <<>>
    /\ installed = <<>>
    /\ cin = NoInput
    /\ cout = NoOutput

\* The caller awaits each access operation before it starts the next one.
Quiet == \A i \in 1..Len(calls) : calls[i].pc = "done"

StaticOptions == Options(Undefined, S("k"), S("s"))

\* The application builds its clients before its first access operation.
Setup == calls = <<>>

Next ==
    \/ Setup /\ InitCall(StaticOptions, MaxClients)
    \/ Setup /\ CreateDocClientCall(StaticOptions, MaxClients)
    \/ \E i \in 1..Len(inits) : CreateDocClientResume(i)
    \/ \E pk \in PKs, sk \in SKs : Quiet /\ GetCall(pk, sk, MaxCalls)
    \/ \E i \in 1..Len(calls) : GetSend(i)
    \/ \E i \in 1..Len(calls) : GetReturn(i)
    \/ \E d \in Datas, sk \in SKs : Quiet /\ PutCall(d, PKList[1], sk, MaxCalls)
    \/ \E i \in 1..Len(calls) : PutSend(i)
    \/ \E i \in 1..Len(calls) : PutReturn(i)
    \/ \E h \in DocClients, it \in RawItems : Quiet /\ RawPutCall(h, it)
    \/ \E i \in 1..Len(calls) : RawPutSend(i)
    \/ \E i \in 1..Len(calls) : RawPutReturn(i)
    \/ \E h \in DocClients, k \in RawKeys : Quiet /\ RawGetCall(h, k)
    \/ \E i \in 1..Len(calls) : RawGetReturn(i)
    \/ \E h \in DocClients :
          Quiet /\ UpdateItemCall(h, TableKey, "set X = :x", ":x" :> Num(7))
    \/ \E i \in 1..Len(calls) : UpdateItemReturn(i)
    \/ \E h \in DocClients : Quiet /\ DeleteItemCall(h, TableKey)
    \/ \E i \in 1..Len(calls) : DeleteItemReturn(i)
    \/ \E h \in DocClients : Quiet /\ QueryItemsCall(h, "PK = :pk", ":pk" :> PKList[1])
    \/ \E i \in 1..Len(calls) : QueryItemsReturn(i)
    \/ \E h \in DocClients : Quiet /\ ScanTableCall(h, "", EmptyObj)
    \/ \E i \in 1..Len(calls) : ScanTableReturn(i)

Spec == Init /\ [][Next]_vars

(***************************************************************************)
(* Specification of re-initialization: init with every kind of options,    *)
(* racing with concurrent get and put calls.                               *)
(***************************************************************************)
InitReinit ==
    /\ env = [DYNAMODB_TABLE |-> "T1", AWS_REGION |-> S("r"),
              AWS_IDENTITY_POOL_ID |-> Undefined, AWS_ACCESS_KEY_ID |-> Undefined,
              AWS_SECRET_ACCESS_KEY |-> Undefined]
    /\ client = 0
    /\ handles = <<>>
    /\ inits = <<>>
    /\ calls = <<>>
    /\ schema = "PK"
    /\ store = EmptyStore("PK")
    /\ wire = <<>>
    /\ installed = <<>>
    /\ cin = NoInput
    /\ cout = NoOutput

NextReinit ==
    \/ \E o \in SomeOptions : InitCall(o, MaxInits)
    \/ \E i \in 1..Len(inits) : InitResume(i)
    \/ GetCall(PKList[1], Undefined, MaxRacing)
    \/ \E i \in 1..Len(calls) : GetSend(i)
    \/ \E i \in 1..Len(calls) : GetReturn(i)
    \/ \E d \in Datas : PutCall(d, PKList[1], Undefined, MaxRacing)
    \/ \E i \in 1..Len(calls) : PutSend(i)
    \/ \E i \in 1..Len(calls) : PutReturn(i)

SpecReinit == InitReinit /\ [][NextReinit]_vars

(***************************************************************************)
(* Specification of overwriting: one init, then put and get calls on the   *)
(* first key, each awaited, on a table of either schema that may already   *)
(* hold a foreign item.                                                    *)
(***************************************************************************)
NextOverwrite ==
    \/ Setup /\ InitCall(StaticOptions, MaxClients)
    \/ \E sk \in SKs : Quiet /\ GetCall(PKList[1], sk, MaxOverwriteCalls)
    \/ \E i \in 1..Len(calls) : GetSend(i)
    \/ \E i \in 1..Len(calls) : GetReturn(i)
    \/ \E d \in Datas, sk \in SKs : Quiet /\ PutCall(d, PKList[1], sk, MaxOverwriteCalls)
    \/ \E i \in 1..Len(calls) : PutSend(i)
    \/ \E i \in 1..Len(calls) : PutReturn(i)

SpecOverwrite == Init /\ [][NextOverwrite]_vars

(***************************************************************************)
(* Specification of the table name: the application renames the target     *)
(* table in the environment at any moment, also while a call is suspended  *)
(* at its import; get and put calls on the first key, each awaited.        *)
(***************************************************************************)
\* The application assigns process.env.DYNAMODB_TABLE.
SetTable(t) ==
    /\ t # env.DYNAMODB_TABLE
    /\ env' = [env EXCEPT !.DYNAMODB_TABLE = t]
    /\ UNCHANGED <<client, handles, inits, calls, store, schema, wire, installed,
                   cin, cout>>

InitTable ==
    /\ env = [DYNAMODB_TABLE |-> LoadedTable, AWS_REGION |-> S("r"),
              AWS_IDENTITY_POOL_ID |-> Undefined, AWS_ACCESS_KEY_ID |-> Undefined,
              AWS_SECRET_ACCESS_KEY |-> Undefined]
    /\ client = 0
    /\ handles = <<>>
    /\ inits = <<>>
    /\ calls = <<>>
    /\ schema = "PK"
    /\ store = EmptyStore("PK")
    /\ wire = <<>>
    /\ installed = <<>>
    /\ cin = NoInput
    /\ cout = NoOutput

NextTable ==
    \/ Setup /\ InitCall(StaticOptions, MaxClients)
    \/ \E t \in Tables : SetTable(t)
    \/ Quiet /\ GetCall(PKList[1], Undefined, MaxTableCalls)
    \/ \E i \in 1..Len(calls) : GetSend(i)
    \/ \E i \in 1..Len(calls) : GetReturn(i)
    \/ \E d \in Datas : Quiet /\ PutCall(d, PKList[1], Undefined, MaxTableCalls)
    \/ \E i \in 1..Len(calls) : PutSend(i)
    \/ \E i \in 1..Len(calls) : PutReturn(i)

SpecTable == InitTable /\ [][NextTable]_vars

(***************************************************************************)
(* Specification of the codec: the item put builds and the key get builds, *)
(* for every input, and what get makes of the item when it is read back.   *)
(***************************************************************************)
CodecPKs == PKs \cup {Str(<<>>), Num(0), Num(7)}

InitCodec ==
    /\ env = [DYNAMODB_TABLE |-> "T1", AWS_REGION |-> S("r"),
              AWS_IDENTITY_POOL_ID |-> Undefined, AWS_ACCESS_KEY_ID |-> Undefined,
              AWS_SECRET_ACCESS_KEY |-> Undefined]
    /\ client = 0
    /\ handles = <<>>
    /\ inits = <<>>
    /\ calls = <<>>
    /\ schema = "PK"
    /\ store = EmptyStore("PK")
    /\ wire = <<>>
    /\ installed = <<>>
    /\ cin \in [data : CodecDatas, pk : CodecPKs, sk : CodecSKs]
    /\ cout = NoOutput

\* part_000 lines 322-325 on the input.
BuildItem ==
    /\ cout.op = "none"
    /\ cout' = [op |-> "item", v |-> PutItem(cin.data, cin.pk, cin.sk)]
    /\ UNCHANGED <<env, client, handles, inits, calls, store, schema, wire, installed, cin>>

\* part_000 lines 284-286 on the input.
BuildKey ==
    /\ cout.op = "none"
    /\ cout' = [op |-> "key", v |-> GetKey(cin.pk, cin.sk)]
    /\ UNCHANGED <<env, client, handles, inits, calls, store, schema, wire, installed, cin>>

\* part_000 lines 292-297 on a response that holds the built item.
ReadBack ==
    /\ cout.op = "item"
    /\ cout' = [op |-> "read", v |-> GetResult([Item |-> cout.v])]
    /\ UNCHANGED <<env, client, handles, inits, calls, store, schema, wire, installed, cin>>

NextCodec == BuildItem \/ BuildKey \/ ReadBack

SpecCodec == InitCodec /\ [][NextCodec]_vars

(***************************************************************************)
(* Properties                                                              *)
(***************************************************************************)
CallIds == 1..Len(calls)
InitIds == 1..Len(inits)

\* The requests that call i has handed to a client.
RequestsOf(i) == {n \in 1..Len(wire) : wire[n].by = i}

\* Get call i was served, and the last write of the key before it was the put
\* call calls[i].w, made with the same pk and sk.
ReadsOwnPut(i) ==
    /\ calls[i].fn = "get" /\ calls[i].pc = "done" /\ calls[i].resp.kind = "ok"
    /\ calls[i].w # 0
    /\ calls[calls[i].w].fn = "put"
    /\ calls[calls[i].w].pk = calls[i].pk
    /\ calls[calls[i].w].sk = calls[i].sk

\* C1: a get served after a successful put(v, pk, sk), with no other write of
\* that key in between, returns an item whose PK is pk and whose JSON
\* attribute is the value v itself, not its serialized text.
C1_PutThenGet ==
    \A i \in CallIds :
        ReadsOwnPut(i) =>
            /\ calls[i].status = "ok"
            /\ {"PK", "JSON"} \subseteq DOMAIN calls[i].result
            /\ calls[i].result.PK = calls[i].pk
            /\ calls[i].result.JSON = calls[calls[i].w].data

C1_Witness ==
    \E i \in CallIds :
        /\ ReadsOwnPut(i)
        /\ calls[i].sk = SortKey
        /\ calls[i].result.JSON = calls[calls[i].w].data
        /\ calls[i].result.JSON.t = "array"

\* The falsy JavaScript values among the sort keys.
FalsySKs == {Undefined, Null, Bool(FALSE), Num(0), Str(<<>>)}
ExpectedKeyAttrs(sk) == IF sk \in FalsySKs THEN {"PK"} ELSE {"PK", "SK"}

C3_AbsentIsNull ==
    \A i \in CallIds :
        (calls[i].fn = "get" /\ calls[i].pc = "done") =>
            /\ (calls[i].resp.kind = "ok" /\ "Item" \notin DOMAIN calls[i].resp.payload) =>
                  (calls[i].status = "ok" /\ calls[i].result = Null)
            /\ calls[i].resp.kind = "error" =>
                  (calls[i].status = "rejected" /\ calls[i].result # Null)

C3_Witness ==
    \E i \in CallIds :
        /\ calls[i].fn = "get" /\ calls[i].pc = "done"
        /\ calls[i].resp.kind = "ok"
        /\ "Item" \notin DOMAIN calls[i].resp.payload
        /\ calls[i].result = Null

\* The options as init sees them: the environment stands in for an option
\* that is not given.  The factories take the options as given.
Effective(r) ==
    IF r.fn = "init"
    THEN [region |-> IF r.given.region = Undefined THEN env.AWS_REGION ELSE r.given.region,
          identityPoolId |-> IF r.given.identityPoolId = Undefined
                             THEN env.AWS_IDENTITY_POOL_ID ELSE r.given.identityPoolId,
          accessKeyId |-> IF r.given.accessKeyId = Undefined
                          THEN env.AWS_ACCESS_KEY_ID ELSE r.given.accessKeyId,
          secretAccessKey |-> IF r.given.secretAccessKey = Undefined
                              THEN env.AWS_SECRET_ACCESS_KEY ELSE r.given.secretAccessKey]
    ELSE r.given

Absent(v) == v = Undefined \/ v = Str(<<>>)
Insufficient(o) ==
    Absent(o.identityPoolId) /\ (Absent(o.accessKeyId) \/ Absent(o.secretAccessKey))
Failed(r) ==
    /\ r.pc = "done" /\ r.status = "Error"
    /\ r.message = "Insufficient credentials provided"
    /\ r.handle = 0

\* C4 as stated: initialization whose options hold no identity pool id and not
\* both keys fails with the configuration error.
C4_Stated == \A i \in InitIds : Insufficient(inits[i].given) => Failed(inits[i])

\* C4 as amended: initialization fails with the configuration error whenever
\* neither its options nor, for init, the environment variables that stand in
\* for options not given supply an identity pool id or both keys.
C4_Amended ==
    \A i \in InitIds : Insufficient(Effective(inits[i])) => Failed(inits[i])

C4_Witness ==
    \E i \in InitIds :
        /\ inits[i].fn = "init"
        /\ Insufficient(Effective(inits[i]))
        /\ Truthy(inits[i].given.accessKeyId)
        /\ Truthy(env.AWS_ACCESS_KEY_ID)
        /\ Failed(inits[i])

\* C5: with an identity pool id present the federated path is taken and the
\* credential is made of the region and the pool id alone, whatever the keys
\* are; the static pair is used only without a pool id and with both keys.
C5_PoolFirst ==
    \A i \in InitIds :
        LET o == Effective(inits[i])
            c == inits[i].credentials
        IN /\ ~Absent(o.identityPoolId) =>
                 /\ inits[i].status # "Error"
                 /\ c = [kind |-> "cognito", region |-> o.region,
                         identityPoolId |-> o.identityPoolId,
                         accessKeyId |-> Undefined, secretAccessKey |-> Undefined]
           /\ c.kind = "static" =>
                 /\ Absent(o.identityPoolId)
                 /\ ~Absent(o.accessKeyId) /\ ~Absent(o.secretAccessKey)
                 /\ c.accessKeyId = o.accessKeyId
                 /\ c.secretAccessKey = o.secretAccessKey
           /\ inits[i].status = "ok" =>
                 handles[inits[i].handle].credentials = c

C5_Witness ==
    \E i \in InitIds :
        /\ ~Absent(inits[i].given.identityPoolId)
        /\ ~Absent(inits[i].given.accessKeyId)
        /\ ~Absent(inits[i].given.secretAccessKey)
        /\ inits[i].status = "ok"
        /\ handles[inits[i].handle].credentials.kind = "cognito"

PutItemOfLast(i) == calls[calls[i].w].req.Item

\* C7: a get served after put(v1, pk, sk) and then put(v2, pk, sk), the last
\* two writes of its key, returns the item of the second put and nothing else:
\* its JSON attribute is v2, and no attribute comes from the earlier item.
C7_Overwrite ==
    \A i \in CallIds :
        (/\ ReadsOwnPut(i)
         /\ calls[i].pw # 0
         /\ calls[calls[i].pw].fn = "put"
         /\ calls[calls[i].pw].pk = calls[i].pk
         /\ calls[calls[i].pw].sk = calls[i].sk) =>
            /\ calls[i].status = "ok"
            /\ DOMAIN calls[i].result = DOMAIN PutItemOfLast(i)
            /\ \A a \in DOMAIN calls[i].result \ {"JSON"} :
                  calls[i].result[a] = PutItemOfLast(i)[a]
            /\ calls[i].result.JSON = calls[calls[i].w].data
            /\ calls[calls[i].pw].data # calls[calls[i].w].data =>
                  calls[i].result.JSON # calls[calls[i].pw].data

C7_Witness ==
    \E i \in CallIds :
        /\ ReadsOwnPut(i)
        /\ calls[i].pw # 0
        /\ calls[calls[i].pw].fn = "put"
        /\ calls[calls[i].pw].sk = calls[i].sk
        /\ calls[calls[i].pw].data # calls[calls[i].w].data
        /\ calls[i].result.JSON = calls[calls[i].w].data

Sent(i) == calls[i].pc \in {"sent", "done"} /\ calls[i].handle # 0

\* C8 as stated: a call invoked while a handle was installed is sent through
\* that handle, whatever init does before the call reaches client.send.
C8_Stated ==
    \A i \in CallIds : (Sent(i) /\ calls[i].cl0 # 0) => calls[i].handle = calls[i].cl0

\* C8 as amended: a call is sent through the handle installed when it reaches
\* client.send (which is the new handle when an init completed while the call
\* was suspended before that point); a request once sent stays with its
\* handle and is answered, not cancelled, when init replaces the handle.
C8_Amended ==
    \A i \in CallIds :
        Sent(i) =>
            /\ calls[i].at1 >= 1
            /\ calls[i].handle = installed[calls[i].at1]
            /\ \E n \in 1..Len(wire) :
                  /\ RequestsOf(i) = {n}
                  /\ wire[n].via = calls[i].handle
                  /\ wire[n].req = calls[i].req
            /\ calls[i].pc = "done" => calls[i].resp.kind \in {"ok", "error"}

C8_Witness ==
    \E i \in CallIds :
        /\ calls[i].pc = "done"
        /\ calls[i].cl0 # 0
        /\ calls[i].at0 < calls[i].at1
        /\ calls[i].handle = installed[calls[i].at1]
        /\ calls[i].handle # calls[i].cl0
        /\ calls[i].status = "ok"

\* The items in the response that a read call received.
ItemsRead(i) ==
    LET p == calls[i].resp.payload IN
    IF "Item" \in DOMAIN p THEN {p.Item}
    ELSE IF "Items" \in DOMAIN p THEN {p.Items[n] : n \in 1..Len(p.Items)}
    ELSE {}

\* The payload of an item is not serialized data.
BadPayload(it) == "JSON" \in DOMAIN it /\ ~JSONParse(it.JSON).ok

ReadDone(i, fns) ==
    calls[i].fn \in fns /\ calls[i].pc = "done" /\ calls[i].resp.kind = "ok"

C10_OneRequest ==
    \A i \in CallIds :
        /\ Cardinality(RequestsOf(i)) <= 1
        /\ (calls[i].pc \in {"sent", "done"} /\ calls[i].handle # 0) =>
              Cardinality(RequestsOf(i)) = 1
        /\ (calls[i].pc = "done" /\ calls[i].resp.kind = "error") =>
              /\ calls[i].status = "rejected"
              /\ calls[i].err = calls[i].resp.err
              /\ calls[i].result = Undefined
              /\ Cardinality(RequestsOf(i)) = 1
        /\ (calls[i].pc = "done" /\ calls[i].status = "ok") =>
              calls[i].resp.kind = "ok"

C10_Witness ==
    \E i \in CallIds :
        /\ calls[i].fn \in {"updateItem", "deleteItem", "queryItems", "scanTable"}
        /\ calls[i].pc = "done"
        /\ calls[i].resp.kind = "error"
        /\ calls[i].status = "rejected"
        /\ Cardinality(RequestsOf(i)) = 1
\* C11: the request that a get or put hands to client.send names the table
\* that DYNAMODB_TABLE names at that step, whatever it named at init or when
\* the call was invoked; a put that succeeds has written into that table.
C11_TableAtCall ==
    [][\A i \in CallIds :
          (i <= Len(calls') /\ calls[i].pc = "import" /\ calls'[i].pc = "sent") =>
              /\ calls'[i].req.TableName = env.DYNAMODB_TABLE
              /\ wire'[Len(wire')].req.TableName = env.DYNAMODB_TABLE]_vars

\* After an init under the loaded table name, a put was sent to and has
\* written the renamed table, and a get was sent to a table other than the
\* one the call before it addressed.
C11_Witness ==
    /\ client # 0
    /\ \E i \in CallIds :
          /\ calls[i].fn = "put" /\ calls[i].pc = "done" /\ calls[i].status = "ok"
          /\ calls[i].req.TableName # LoadedTable
          /\ store[calls[i].req.TableName][<<PKList[1]>>].item = calls[i].req.Item
          /\ store[LoadedTable][<<PKList[1]>>].item = NoItem
    /\ \E i, j \in CallIds :
          /\ j = i + 1 /\ calls[j].fn = "get"
          /\ calls[i].pc = "done" /\ calls[j].pc \in {"sent", "done"}
          /\ calls[j].handle # 0
          /\ calls[i].req.TableName # calls[j].req.TableName
\* C12: a step in which init fails with the configuration error changes
\* neither client nor the handles that exist, and the failed init has no
\* handle; a get or put that then reaches client.send reads that unchanged
\* client: it fails for lack of a client when none was installed, and is
\* sent through the installed handle otherwise.
C12_FailedInitKeepsClient ==
    [][/\ \A k \in 1..Len(inits') :
              (k > Len(inits) /\ inits'[k].status = "Error") =>
                  /\ inits'[k].message = InsufficientCredentials
                  /\ inits'[k].handle = 0
                  /\ client' = client
                  /\ handles' = handles
                  /\ installed' = installed
       /\ \A i \in CallIds :
              (i <= Len(calls') /\ calls[i].pc = "import" /\ calls'[i].pc # "import") =>
                  IF client = 0
                  THEN calls'[i].pc = "done" /\ calls'[i].status = "TypeError"
                  ELSE calls'[i].pc = "sent" /\ calls'[i].handle = client]_vars

\* A successful init, then a failed one, then a get or put that was invoked
\* after both and was answered through the first init's handle.
C12_Witness ==
    /\ Len(inits) = 2
    /\ inits[1].status = "ok" /\ inits[1].handle # 0
    /\ inits[2].status = "Error"
    /\ client = inits[1].handle
    /\ \E i \in CallIds :
          /\ calls[i].in0 = 2
          /\ calls[i].pc = "done" /\ calls[i].status = "ok"
          /\ calls[i].handle = inits[1].handle
====
